---- MODULE Spec2Model ----
(***************************************************************************)
(* Dining concierge: the Message Router (lambda-functions/LF0.py), the     *)
(* Dialog Fulfillment Handler (lambda-functions/LF1.py) and the Suggestion *)
(* Worker (lambda-functions/LF2.py), with the conversational service, the  *)
(* queue, the search index, the document store and the email service as   *)
(* nondeterministic environments.                                          *)
(*                                                                         *)
(* Python strings are TLA+ strings, taken apart character by character     *)
(* with Head, Tail, SubSeq, Len and \o.  A Python Optional[str] is a set:  *)
(* {} is None and {s} is the string s.                                     *)
(***************************************************************************)
EXTENDS Integers, Sequences, FiniteSets, TLC

VARIABLES
    event,        \* LF1: the event of the current handler invocation
    phase,        \* LF1: "pending" (event not handled yet) or "done"
    response,     \* LF1: the directive lambda_handler returned
    pushOutcome,  \* LF1: "not_called", "raised" or "sent" (push_to_sqs)
    sent,         \* LF1: the bodies send_message accepted in this invocation
    ran,          \* LF1: TRUE when validate_dining_suggestion ran
    queue,        \* LF2: message id -> [body, state]
    wk,           \* LF2: invocation id -> the invocation's local state
    outbox,       \* LF2: the emails the email service accepted, in order
    slot_set,     \* LF1 validators: the slot set handed to the validators
    validation,   \* LF1 validators: what the validators returned for it
    http_event,   \* LF0: the event of the current router invocation
    http_reply,   \* LF0: what lambda_handler returned (or raised)
    lex_calls,    \* LF0: the recognize_text calls of the invocation
    elicited      \* LF1: the slots elicited so far in a run of the dialog hook

dialogVars == <<event, phase, response, pushOutcome, sent, ran>>
workerVars == <<queue, wk, outbox>>
validatorVars == <<slot_set, validation>>
routerVars == <<http_event, http_reply, lex_calls>>
historyVars == <<elicited>>
vars == <<event, phase, response, pushOutcome, sent, ran, queue, wk, outbox,
          slot_set, validation, http_event, http_reply, lex_calls, elicited>>

(***************************************************************************)
(* Python str methods                                                      *)
(***************************************************************************)
Uppers == "ABCDEFGHIJKLMNOPQRSTUVWXYZ"
Lowers == "abcdefghijklmnopqrstuvwxyz"
Digits == "0123456789"

\* the position of the one-character string c in s, 0 when it is not there
RECURSIVE IndexFrom(_, _, _)
IndexFrom(s, c, i) ==
    IF i > Len(s) THEN 0
    ELSE IF SubSeq(s, i, i) = c THEN i
    ELSE IndexFrom(s, c, i + 1)

IndexOf(s, c) == IndexFrom(s, c, 1)

IsUpper(c) == IndexOf(Uppers, c) > 0
IsLower(c) == IndexOf(Lowers, c) > 0
IsDigit(c) == IndexOf(Digits, c) > 0
IsSpace(c) == c = " " \/ c = "\t" \/ c = "\n"

LowerChar(c) ==
    IF IsUpper(c) THEN LET i == IndexOf(Uppers, c) IN SubSeq(Lowers, i, i) ELSE c

UpperChar(c) ==
    IF IsLower(c) THEN LET i == IndexOf(Lowers, c) IN SubSeq(Uppers, i, i) ELSE c

\* str.lower()
RECURSIVE Lower(_)
Lower(s) == IF s = "" THEN "" ELSE LowerChar(Head(s)) \o Lower(Tail(s))

\* str.capitalize(): first character upper-cased, the rest lower-cased
Capitalize(s) == IF s = "" THEN "" ELSE UpperChar(Head(s)) \o Lower(Tail(s))

RECURSIVE LStrip(_)
LStrip(s) == IF s # "" /\ IsSpace(Head(s)) THEN LStrip(Tail(s)) ELSE s

RECURSIVE RStrip(_)
RStrip(s) ==
    IF s # "" /\ IsSpace(SubSeq(s, Len(s), Len(s)))
    THEN RStrip(SubSeq(s, 1, Len(s) - 1))
    ELSE s

\* str.strip()
Strip(s) == LStrip(RStrip(s))

\* every character of s is one of the characters of chars
AllIn(s, chars) == \A i \in 1..Len(s) : IndexOf(chars, SubSeq(s, i, i)) > 0

\* the value of a string of decimal digits
RECURSIVE DigitsValue(_)
DigitsValue(s) ==
    IF s = "" THEN 0
    ELSE 10 * DigitsValue(SubSeq(s, 1, Len(s) - 1))
         + (IndexOf(Digits, SubSeq(s, Len(s), Len(s))) - 1)

\* the digits of s with the underscores int() allows between digits removed
RECURSIVE DropUnderscores(_)
DropUnderscores(s) ==
    IF s = "" THEN ""
    ELSE IF Head(s) = "_" THEN DropUnderscores(Tail(s))
    ELSE Head(s) \o DropUnderscores(Tail(s))

\* a literal int() accepts once sign and blanks are gone: digits, with single
\* underscores only between digits
IsIntBody(s) ==
    /\ s # ""
    /\ AllIn(s, Digits \o "_")
    /\ IsDigit(Head(s))
    /\ IsDigit(SubSeq(s, Len(s), Len(s)))
    /\ \A i \in 1..(Len(s) - 1) :
          ~(SubSeq(s, i, i) = "_" /\ SubSeq(s, i + 1, i + 1) = "_")

\* int(str): [ok |-> FALSE] stands for ValueError
PyInt(str) ==
    LET t    == Strip(str)
        neg  == t # "" /\ Head(t) = "-"
        sgn  == t # "" /\ (Head(t) = "-" \/ Head(t) = "+")
        body == IF sgn THEN Tail(t) ELSE t
    IN  IF IsIntBody(body)
        THEN [ok |-> TRUE,
              val |-> IF neg THEN 0 - DigitsValue(DropUnderscores(body))
                      ELSE DigitsValue(DropUnderscores(body))]
        ELSE [ok |-> FALSE, val |-> 0]

(***************************************************************************)
(* LF1.py: slots and validators                                            *)
(***************************************************************************)
None == {}
Some(s) == {s}
IsNone(o) == o = {}
Val(o) == CHOOSE s \in o : TRUE

SlotNames == {"Location", "Cuisine", "DiningTime", "NumberOfPeople", "Email"}

\* a slot of the event: Python None, a slot object without a value, or a slot
\* object whose value carries interpretedValue iv
NoneSlot == [kind |-> "None", iv |-> ""]
NoValueSlot == [kind |-> "NoValue", iv |-> ""]
StrSlot(s) == [kind |-> "Str", iv |-> s]

get_slot_value(slots, slot_name) ==
    LET slot == slots[slot_name]
    IN  IF slot.kind = "None" THEN None
        ELSE IF slot.kind = "NoValue" THEN None
        ELSE Some(slot.iv)

VALID_CUISINES ==
    <<"chinese", "italian", "mexican", "japanese", "indian", "turkish", "spanish">>

VALID_LOCATIONS == <<"manhattan", "brooklyn">>

InList(s, list) == \E i \in 1..Len(list) : list[i] = s

\* the cuisine compared without its surrounding blanks
is_valid_cuisine_stripped(cuisine) ==
    IsNone(cuisine) \/ InList(Strip(Lower(Val(cuisine))), VALID_CUISINES)

is_valid_cuisine(cuisine) ==
    IsNone(cuisine) \/ InList(Lower(Val(cuisine)), VALID_CUISINES)

is_valid_location(location) ==
    IF IsNone(location) THEN TRUE
    ELSE InList(Strip(Lower(Val(location))), VALID_LOCATIONS)

\* the range check with 0 as its lower end
is_valid_number_of_people_from_zero(num) ==
    IF IsNone(num) THEN TRUE
    ELSE LET n == PyInt(Val(num))
         IN  IF n.ok THEN 0 <= n.val /\ n.val <= 20 ELSE FALSE

is_valid_number_of_people(num) ==
    IF IsNone(num) THEN TRUE
    ELSE LET n == PyInt(Val(num))
         IN  IF n.ok THEN 1 <= n.val /\ n.val <= 20 ELSE FALSE

\* str.split(":"): the first two parts (the code reads no other)
SplitColon(s) ==
    LET i    == IndexOf(s, ":")
        rest == SubSeq(s, i + 1, Len(s))
        j    == IndexOf(rest, ":")
    IN  <<SubSeq(s, 1, i - 1),
          IF j = 0 THEN rest ELSE SubSeq(rest, 1, j - 1)>>

is_valid_dining_time(dining_time) ==
    IF IsNone(dining_time) THEN TRUE
    ELSE IF IndexOf(Val(dining_time), ":") > 0
    THEN LET parts == SplitColon(Val(dining_time))
             h     == PyInt(parts[1])
             m     == PyInt(parts[2])
         IN  IF ~h.ok THEN FALSE
             ELSE IF ~(0 <= h.val /\ h.val <= 23) THEN FALSE
             ELSE IF ~m.ok THEN FALSE
             ELSE 0 <= m.val /\ m.val <= 59
    ELSE TRUE

\* the character classes [a-zA-Z0-9._%+-], [a-zA-Z0-9.-] and [a-zA-Z]
LocalChars == Lowers \o Uppers \o Digits \o "._%+-"
DomainChars == Lowers \o Uppers \o Digits \o ".-"
TldChars == Lowers \o Uppers

\* re.match(r'^[a-zA-Z0-9._%+-]+@[a-zA-Z0-9.-]+\.[a-zA-Z]{2,}$', s): "$" also
\* matches just before one trailing newline
EmailPattern(s) ==
    LET t == IF s # "" /\ SubSeq(s, Len(s), Len(s)) = "\n"
             THEN {s, SubSeq(s, 1, Len(s) - 1)} ELSE {s}
    IN  \E u \in t : \E a \in 2..Len(u) : \E d \in (a + 2)..Len(u) :
            /\ SubSeq(u, a, a) = "@"
            /\ SubSeq(u, d, d) = "."
            /\ AllIn(SubSeq(u, 1, a - 1), LocalChars)
            /\ AllIn(SubSeq(u, a + 1, d - 1), DomainChars)
            /\ Len(u) - d >= 2
            /\ AllIn(SubSeq(u, d + 1, Len(u)), TldChars)

is_valid_email(email) ==
    IF IsNone(email) THEN TRUE ELSE EmailPattern(Val(email))

Valid == [isValid |-> TRUE, violatedSlot |-> "", message |-> ""]
Invalid(slot, msg) == [isValid |-> FALSE, violatedSlot |-> slot, message |-> msg]

RECURSIVE JoinComma(_)
JoinComma(list) ==
    IF Len(list) = 0 THEN ""
    ELSE IF Len(list) = 1 THEN list[1]
    ELSE list[1] \o ", " \o JoinComma(Tail(list))

\* validate_dining_suggestion with the dining time checked before the number
\* of people
validate_time_before_people(slots) ==
    LET location         == get_slot_value(slots, "Location")
        cuisine          == get_slot_value(slots, "Cuisine")
        dining_time      == get_slot_value(slots, "DiningTime")
        number_of_people == get_slot_value(slots, "NumberOfPeople")
        email            == get_slot_value(slots, "Email")
    IN  IF ~IsNone(location) /\ ~is_valid_location(location)
        THEN Invalid("Location",
                 "Sorry, I don't have suggestions for " \o Val(location)
                 \o ". Try another city?")
        ELSE IF ~IsNone(cuisine) /\ ~is_valid_cuisine(cuisine)
        THEN Invalid("Cuisine",
                 Val(cuisine) \o " isn't a supported cuisine. Choose from: "
                 \o JoinComma(VALID_CUISINES) \o ".")
        ELSE IF ~IsNone(dining_time) /\ ~is_valid_dining_time(dining_time)
        THEN Invalid("DiningTime", "Please provide a valid time (e.g., 7 pm).")
        ELSE IF ~IsNone(number_of_people)
                /\ ~is_valid_number_of_people(number_of_people)
        THEN Invalid("NumberOfPeople",
                 "Please enter a valid number of people (1-20).")
        ELSE IF ~IsNone(email) /\ ~is_valid_email(email)
        THEN Invalid("Email", "Please provide a valid email address.")
        ELSE Valid

validate_dining_suggestion(slots) ==
    LET location         == get_slot_value(slots, "Location")
        cuisine          == get_slot_value(slots, "Cuisine")
        dining_time      == get_slot_value(slots, "DiningTime")
        number_of_people == get_slot_value(slots, "NumberOfPeople")
        email            == get_slot_value(slots, "Email")
    IN  IF ~IsNone(location) /\ ~is_valid_location(location)
        THEN Invalid("Location",
                 "Sorry, I don't have suggestions for " \o Val(location)
                 \o ". Try another city?")
        ELSE IF ~IsNone(cuisine) /\ ~is_valid_cuisine(cuisine)
        THEN Invalid("Cuisine",
                 Val(cuisine) \o " isn't a supported cuisine. Choose from: "
                 \o JoinComma(VALID_CUISINES) \o ".")
        ELSE IF ~IsNone(number_of_people)
                /\ ~is_valid_number_of_people(number_of_people)
        THEN Invalid("NumberOfPeople",
                 "Please enter a valid number of people (1-20).")
        ELSE IF ~IsNone(dining_time) /\ ~is_valid_dining_time(dining_time)
        THEN Invalid("DiningTime", "Please provide a valid time (e.g., 7 pm).")
        ELSE IF ~IsNone(email) /\ ~is_valid_email(email)
        THEN Invalid("Email", "Please provide a valid email address.")
        ELSE Valid

(***************************************************************************)
(* LF1.py: directives, push_to_sqs and the intent handlers                 *)
(***************************************************************************)
\* A directive.  "slots" is {} when the directive has no slots key and
\* {slots} when it carries the slot set; "state" is "" when it has no state.
close(intent_name, fulfillment_state, message_content) ==
    [type |-> "Close", intentName |-> intent_name, state |-> fulfillment_state,
     slots |-> {}, slotToElicit |-> "", message |-> message_content]

elicit_slot(intent_name, slots, slot_to_elicit, message_content) ==
    [type |-> "ElicitSlot", intentName |-> intent_name, state |-> "InProgress",
     slots |-> {slots}, slotToElicit |-> slot_to_elicit,
     message |-> message_content]

\* delegate handing back an emptied slot set
delegate_empty_slots(intent_name, slots) ==
    [type |-> "Delegate", intentName |-> intent_name, state |-> "",
     slots |-> {[n \in DOMAIN slots |-> NoneSlot]}, slotToElicit |-> "",
     message |-> ""]

delegate(intent_name, slots) ==
    [type |-> "Delegate", intentName |-> intent_name, state |-> "",
     slots |-> {slots}, slotToElicit |-> "", message |-> ""]

\* What the handler's surroundings decide: whether SQS_QUEUE_URL is set and
\* whether the queue service accepts the send_message call.
Envs == [queueUrl : BOOLEAN, sqsUp : BOOLEAN]

\* the rewrite applied to the spelling "manhattan" alone
queue_location_exact(location) ==
    IF location = "manhattan" THEN "new york" ELSE location

\* lines 162-163: the Location of the queued record
queue_location(location) ==
    IF Lower(location) = "manhattan" THEN "new york" ELSE location

\* push_to_sqs returning normally when send_message fails
push_to_sqs_swallow(location, cuisine, dining_time, number_of_people, email, env) ==
    IF IsNone(location)
    THEN [exc |-> "AttributeError", bodies |-> <<>>]
    ELSE IF ~env.queueUrl
    THEN [exc |-> "ValueError", bodies |-> <<>>]
    ELSE IF IsNone(cuisine) \/ IsNone(email)
    THEN [exc |-> "ParamValidationError", bodies |-> <<>>]
    ELSE IF ~env.sqsUp
    THEN [exc |-> "", bodies |-> <<>>]
    ELSE [exc |-> "",
          bodies |-> << [Location |-> Some(queue_location(Val(location))),
                         Cuisine |-> cuisine,
                         DiningTime |-> dining_time,
                         NumberOfPeople |-> number_of_people,
                         Email |-> email] >>]

\* push_to_sqs: [exc, bodies]; exc is "" when it returns and the exception's
\* name when it raises, bodies is what send_message accepted.  send_message
\* rejects a None StringValue before anything is sent.
push_to_sqs(location, cuisine, dining_time, number_of_people, email, env) ==
    IF IsNone(location)
    THEN [exc |-> "AttributeError", bodies |-> <<>>]     \* None.lower()
    ELSE LET loc == queue_location(Val(location))
         IN  IF ~env.queueUrl
             THEN [exc |-> "ValueError", bodies |-> <<>>]
             ELSE IF IsNone(cuisine) \/ IsNone(email)
             THEN [exc |-> "ParamValidationError", bodies |-> <<>>]
             ELSE IF ~env.sqsUp
             THEN [exc |-> "ClientError", bodies |-> <<>>]
             ELSE [exc |-> "",
                   bodies |-> << [Location |-> Some(loc),
                                  Cuisine |-> cuisine,
                                  DiningTime |-> dining_time,
                                  NumberOfPeople |-> number_of_people,
                                  Email |-> email] >>]

\* str(x) of an f-string field
Fmt(o) == IF IsNone(o) THEN "None" ELSE Val(o)

GreetingMessage ==
    "Hi there! How can I help you? You can ask me for dining suggestions."

ThankYouMessage == "You're welcome! Have a great day and enjoy your meal!"

FailureMessage ==
    "I'm sorry, something went wrong while processing your request. "
    \o "Please try again later."

FallbackMessage == "Sorry, I didn't understand that. Can you try again?"

confirmation_message(location, cuisine, dining_time, number_of_people, email) ==
    "You're all set! I've received your request for "
    \o Capitalize(Val(cuisine)) \o " restaurant suggestions in "
    \o Fmt(location) \o " for " \o Fmt(number_of_people) \o " people at "
    \o Fmt(dining_time) \o ". I will notify you via email at " \o Fmt(email)
    \o " once I have the list of suggestions. Expect it shortly!"

handle_greeting_intent(ev) ==
    [resp |-> close(ev.intent, "Fulfilled", GreetingMessage),
     push |-> "not_called", bodies |-> <<>>, validated |-> FALSE]

handle_thank_you_intent(ev) ==
    [resp |-> close(ev.intent, "Fulfilled", ThankYouMessage),
     push |-> "not_called", bodies |-> <<>>, validated |-> FALSE]

\* the handler without the clearing of the violated slot
ClearSlotKept(slots, violated_slot) == slots

\* the slot set after "if slots.get(violated_slot): slots[violated_slot] = None"
ClearSlot(slots, violated_slot) ==
    IF slots[violated_slot].kind # "None"
    THEN [slots EXCEPT ![violated_slot] = NoneSlot]
    ELSE slots

DialogCodeHook(ev) ==
    LET validation_result == validate_dining_suggestion(ev.slots)
    IN  IF ~validation_result.isValid
        THEN [resp |-> elicit_slot(ev.intent,
                          ClearSlot(ev.slots, validation_result.violatedSlot),
                          validation_result.violatedSlot,
                          validation_result.message),
              push |-> "not_called", bodies |-> <<>>, validated |-> TRUE]
        ELSE [resp |-> delegate(ev.intent, ev.slots),
              push |-> "not_called", bodies |-> <<>>, validated |-> TRUE]

\* an exception that leaves lambda_handler
Raise(intent_name, exc) ==
    [type |-> "Raise", intentName |-> intent_name, state |-> "",
     slots |-> {}, slotToElicit |-> "", message |-> exc]

\* the body of the try block of the fulfillment branch; exc names the
\* exception that leaves the block, "" when the block returns
FulfillmentTry(ev, env) ==
    LET location         == get_slot_value(ev.slots, "Location")
        cuisine          == get_slot_value(ev.slots, "Cuisine")
        dining_time      == get_slot_value(ev.slots, "DiningTime")
        number_of_people == get_slot_value(ev.slots, "NumberOfPeople")
        email            == get_slot_value(ev.slots, "Email")
        pushed == push_to_sqs(location, cuisine, dining_time,
                              number_of_people, email, env)
    IN  IF pushed.exc # ""
        THEN [exc |-> pushed.exc, resp |-> Raise(ev.intent, pushed.exc),
              push |-> "raised", bodies |-> pushed.bodies]
        ELSE IF IsNone(cuisine)                          \* None.capitalize()
        THEN [exc |-> "AttributeError",
              resp |-> Raise(ev.intent, "AttributeError"),
              push |-> "sent", bodies |-> pushed.bodies]
        ELSE [exc |-> "",
              resp |-> close(ev.intent, "Fulfilled",
                          confirmation_message(location, cuisine, dining_time,
                                               number_of_people, email)),
              push |-> "sent", bodies |-> pushed.bodies]

\* "except ValueError" in place of "except Exception"
CaughtValueErrorOnly(exc) == exc = "ValueError"

\* "except Exception": every exception of the try block is caught
Caught(exc) == exc # ""

FulfillmentCodeHook(ev, env) ==
    LET t == FulfillmentTry(ev, env)
    IN  IF t.exc = ""
        THEN [resp |-> t.resp, push |-> t.push, bodies |-> t.bodies,
              validated |-> FALSE]
        ELSE IF Caught(t.exc)
        THEN [resp |-> close(ev.intent, "Failed", FailureMessage),
              push |-> t.push, bodies |-> t.bodies, validated |-> FALSE]
        ELSE [resp |-> t.resp, push |-> t.push, bodies |-> t.bodies,
              validated |-> FALSE]

\* the fulfillment branch taken for every source that is not DialogCodeHook
handle_dining_else_fulfillment(ev, env) ==
    IF ev.source = "DialogCodeHook" THEN DialogCodeHook(ev)
    ELSE FulfillmentCodeHook(ev, env)

handle_dining_suggestions_intent(ev, env) ==
    IF ev.source = "DialogCodeHook" THEN DialogCodeHook(ev)
    ELSE IF ev.source = "FulfillmentCodeHook" THEN FulfillmentCodeHook(ev, env)
    ELSE [resp |-> delegate(ev.intent, ev.slots),
          push |-> "not_called", bodies |-> <<>>, validated |-> FALSE]

\* the dispatch without its last branch: every intent that is no greeting
\* and no thank-you goes to the dining handler
lambda_handler_no_fallback(ev, env) ==
    IF ev.intent = "GreetingIntent" THEN handle_greeting_intent(ev)
    ELSE IF ev.intent = "ThankYouIntent" THEN handle_thank_you_intent(ev)
    ELSE handle_dining_suggestions_intent(ev, env)

lambda_handler(ev, env) ==
    IF ev.intent = "GreetingIntent" THEN handle_greeting_intent(ev)
    ELSE IF ev.intent = "ThankYouIntent" THEN handle_thank_you_intent(ev)
    ELSE IF ev.intent = "DiningSuggestionsIntent"
    THEN handle_dining_suggestions_intent(ev, env)
    ELSE [resp |-> close(ev.intent, "Failed", FallbackMessage),
          push |-> "not_called", bodies |-> <<>>, validated |-> FALSE]

(***************************************************************************)
(* The Dialog Fulfillment Handler as a state machine: the conversational   *)
(* service hands lambda_handler an event, takes the directive, and may     *)
(* come back with the slot set the directive carried.                      *)
(***************************************************************************)
Intents ==
    {"GreetingIntent", "ThankYouIntent", "DiningSuggestionsIntent", "OtherIntent"}

\* the two sources the handler knows, no source, and a misspelt one
Sources == {"DialogCodeHook", "FulfillmentCodeHook", "", "fulfillmentcodehook"}

LocationSlots ==
    {NoneSlot, NoValueSlot, StrSlot("Manhattan"), StrSlot("brooklyn "),
     StrSlot("Boston")}
CuisineSlots == {NoneSlot, StrSlot("Italian"), StrSlot("thai")}
PeopleSlots == {NoneSlot, StrSlot("4"), StrSlot("21"), StrSlot("two")}
TimeSlots == {NoneSlot, StrSlot("19:30"), StrSlot("7 pm"), StrSlot("25:00")}
EmailSlots == {NoneSlot, StrSlot("a@b.co"), StrSlot("a@b")}

SlotValues(name) ==
    CASE name = "Location"       -> LocationSlots
      [] name = "Cuisine"        -> CuisineSlots
      [] name = "NumberOfPeople" -> PeopleSlots
      [] name = "DiningTime"     -> TimeSlots
      [] name = "Email"          -> EmailSlots

SlotSets == {s \in [SlotNames -> LocationSlots \cup CuisineSlots \cup PeopleSlots
                                 \cup TimeSlots \cup EmailSlots] :
                \A n \in SlotNames : s[n] \in SlotValues(n)}

NoResponse == Raise("", "")

InitDialog ==
    /\ event \in [intent : Intents, source : Sources, slots : SlotSets]
    /\ phase = "pending"
    /\ response = NoResponse
    /\ pushOutcome = "not_called"
    /\ sent = <<>>
    /\ ran = FALSE

\* one invocation of lambda_handler, from the event to the returned directive
Invoke ==
    /\ phase = "pending"
    /\ \E env \in Envs :
          LET r == lambda_handler(event, env)
          IN  /\ response' = r.resp
              /\ pushOutcome' = r.push
              /\ sent' = r.bodies
              /\ ran' = r.validated
    /\ phase' = "done"
    /\ UNCHANGED <<event, workerVars, validatorVars, routerVars, historyVars>>

\* the service invokes the handler again with the slot set of the directive,
\* the elicited slot filled by the user's next answer or left empty
NextTurn ==
    /\ phase = "done"
    /\ response.slots # {}
    /\ \E src \in Sources :
       \E slots \in response.slots :
       \E v \in (IF response.type = "ElicitSlot"
                 THEN SlotValues(response.slotToElicit) ELSE {NoneSlot}) :
          event' = [intent |-> event.intent, source |-> src,
                    slots |-> IF response.type = "ElicitSlot"
                              THEN [slots EXCEPT ![response.slotToElicit] = v]
                              ELSE slots]
    /\ phase' = "pending"
    /\ response' = NoResponse
    /\ pushOutcome' = "not_called"
    /\ sent' = <<>>
    /\ ran' = FALSE
    /\ UNCHANGED <<workerVars, validatorVars, routerVars, historyVars>>

\* the validators and the router are not part of this run
IdleValidator ==
    /\ slot_set = [n \in SlotNames |-> NoneSlot]
    /\ validation = [ran |-> FALSE]

IdleRouter ==
    /\ http_event = [t |-> "none", v |-> 0]
    /\ http_reply = [kind |-> "none"]
    /\ lex_calls = <<>>
    /\ elicited = <<>>

IdleWorker ==
    /\ queue = <<>>
    /\ wk = <<>>
    /\ outbox = <<>>

Init == InitDialog /\ IdleWorker /\ IdleValidator /\ IdleRouter

Next == Invoke \/ NextTurn

Spec == Init /\ [][Next]_vars

(***************************************************************************)
(* LF2.py: the Suggestion Worker.  One invocation of lambda_handler is a   *)
(* process; its steps are cut at the calls that touch the queue and the    *)
(* email service, so that invocations interleave there.                    *)
(***************************************************************************)
MaxMessages == 2
MaxHits == 6
NumWorkers == 2

\* random.sample(hits, min(5, len(hits)))
SampleSize == 5

\* dict.get(key, ""): the body is a function from its keys to JSON values,
\* {} being null and {s} the string s
Get(body, key) == IF key \in DOMAIN body THEN body[key] ELSE Some("")

\* "not x" for an Optional[str]
Falsy(o) == IsNone(o) \/ Val(o) = ""

LOCATION_SYNONYMS ==
    <<"manhattan", "new york", "new york, ny", "new york city", "nyc", "ny, ny">>

\* the location label of the email (LF2.py lines 73-75)
display_location(location) ==
    IF InList(Strip(Lower(location)), LOCATION_SYNONYMS)
    THEN "manhattan" ELSE location

Min(a, b) == IF a < b THEN a ELSE b

\* a sample that keeps every hit
SamplesUncapped(n) == {1..n}

\* the sets of hits random.sample can pick out of hits 1..n
Samples(n) == {S \in SUBSET (1..n) : Cardinality(S) = Min(SampleSize, n)}

NoResult == [kind |-> "none", status |-> "", restaurants_sent |-> 0]
Return(status, n) == [kind |-> "return", status |-> status, restaurants_sent |-> n]
Raised(exc) == [kind |-> "raise", status |-> exc, restaurants_sent |-> 0]

FreshWorker ==
    [pc |-> "start", msg |-> 0, calls |-> <<>>, hits |-> -1,
     selected |-> {}, found |-> {}, result |-> NoResult]

\* a delete that empties the queue
DeleteEveryMessage(q, m) == [i \in DOMAIN q |-> [q[i] EXCEPT !.state = "deleted"]]

\* sqs.delete_message for the message invocation w received
DeleteMessage(q, m) == [q EXCEPT ![m].state = "deleted"]

Call(w, op, arg) == Append(wk[w].calls, <<op, arg>>)

\* lines 43-54: receive_message with MaxNumberOfMessages=1, WaitTimeSeconds=0;
\* short polling may answer with no message while some are visible
ReceiveNothing(w) ==
    /\ wk[w].pc = "start"
    /\ wk' = [wk EXCEPT ![w].pc = "done",
                        ![w].calls = Call(w, "receive_message", 0),
                        ![w].result = Return("No messages in queue", 0)]
    /\ UNCHANGED <<queue, outbox, dialogVars, validatorVars, routerVars, historyVars>>

Receive(w) ==
    /\ wk[w].pc = "start"
    /\ \E m \in DOMAIN queue :
          /\ queue[m].state = "visible"
          /\ queue' = [queue EXCEPT ![m].state = "inflight"]
          /\ wk' = [wk EXCEPT ![w].pc = "got", ![w].msg = m,
                              ![w].calls = Call(w, "receive_message", m)]
    /\ UNCHANGED <<outbox, dialogVars, validatorVars, routerVars, historyVars>>

\* the check of cuisine alone
MissingCuisineOnly(cuisine, email) == Capitalize(Val(cuisine)) = ""

\* line 67: "if not cuisine or not email", cuisine being capitalized
MissingFields(cuisine, email) ==
    Capitalize(Val(cuisine)) = "" \/ Falsy(email)

\* lines 55-75: read the body, check the required fields
Parse(w) ==
    /\ wk[w].pc = "got"
    /\ LET m       == wk[w].msg
           body    == queue[m].body
           cuisine == Get(body, "Cuisine")
           email   == Get(body, "Email")
           loc     == Get(body, "Location")
       IN  IF ~queue[m].parses
           THEN /\ wk' = [wk EXCEPT ![w].pc = "done",
                                    ![w].result = Raised("JSONDecodeError")]
                /\ UNCHANGED queue
           ELSE IF IsNone(cuisine)                        \* None.capitalize()
           THEN /\ wk' = [wk EXCEPT ![w].pc = "done",
                                    ![w].result = Raised("AttributeError")]
                /\ UNCHANGED queue
           ELSE IF MissingFields(cuisine, email)
           THEN /\ queue' = DeleteMessage(queue, m)
                /\ wk' = [wk EXCEPT ![w].pc = "done",
                                    ![w].calls = Call(w, "delete_message", m),
                                    ![w].result = Return("Missing required fields", 0)]
           ELSE IF IsNone(loc)                            \* None.lower()
           THEN /\ wk' = [wk EXCEPT ![w].pc = "done",
                                    ![w].result = Raised("AttributeError")]
                /\ UNCHANGED queue
           ELSE /\ wk' = [wk EXCEPT ![w].pc = "search"]
                /\ UNCHANGED queue
    /\ UNCHANGED <<outbox, dialogVars, validatorVars, routerVars, historyVars>>

\* the search block with the match query after every term query
SearchCallsBoth(w, termOk, matchOk) ==
    Append(Call(w, "search_term", IF termOk THEN "ok" ELSE "error"),
           <<"search_match", IF matchOk THEN "ok" ELSE "error">>)

\* the calls the search block makes: the term query, and the match query
\* when the term query raised
SearchCalls(w, termOk, matchOk) ==
    IF termOk
    THEN Call(w, "search_term", "ok")
    ELSE Append(Call(w, "search_term", "error"),
                <<"search_match", IF matchOk THEN "ok" ELSE "error">>)

\* the zero-hit exit without its delete_message
ZeroHitsNoDelete(w, calls) ==
    /\ wk' = [wk EXCEPT
          ![w].pc = "done", ![w].calls = calls, ![w].hits = 0,
          ![w].result =
              Return("No restaurants found for "
                     \o Capitalize(Val(Get(queue[wk[w].msg].body, "Cuisine"))), 0)]
    /\ UNCHANGED queue

\* lines 111-114: no hits: delete the message and return
ZeroHits(w, calls) ==
    /\ queue' = DeleteMessage(queue, wk[w].msg)
    /\ wk' = [wk EXCEPT
          ![w].pc = "done", ![w].hits = 0,
          ![w].calls = Append(calls, <<"delete_message", wk[w].msg>>),
          ![w].result =
              Return("No restaurants found for "
                     \o Capitalize(Val(Get(queue[wk[w].msg].body, "Cuisine"))), 0)]

\* lines 77-114: query the index; an answer holds n of the counts hit counts
Search(w, counts) ==
    /\ wk[w].pc = "search"
    /\ \E termOk \in BOOLEAN, matchOk \in BOOLEAN, n \in counts :
          LET calls == SearchCalls(w, termOk, matchOk)
          IN  IF ~termOk /\ ~matchOk
              THEN /\ wk' = [wk EXCEPT ![w].pc = "done", ![w].calls = calls,
                                       ![w].result = Raised("SearchError")]
                   /\ UNCHANGED queue
              ELSE IF n = 0
              THEN ZeroHits(w, calls)
              ELSE /\ wk' = [wk EXCEPT ![w].pc = "fetch", ![w].calls = calls,
                                       ![w].hits = n]
                   /\ UNCHANGED queue
    /\ UNCHANGED <<outbox, dialogVars, validatorVars, routerVars, historyVars>>

\* the get_item calls for the sampled hits, in identifier order
RECURSIVE GetItemCalls(_, _)
GetItemCalls(calls, ids) ==
    IF ids = {} THEN calls
    ELSE LET i == CHOOSE x \in ids : \A y \in ids : x <= y
         IN  GetItemCalls(Append(calls, <<"get_item", i>>), ids \ {i})

\* lines 116-139: sample the hits and read each from the document store; a
\* read returns the record, finds none, or fails
Fetch(w) ==
    /\ wk[w].pc = "fetch"
    /\ \E sel \in Samples(wk[w].hits) : \E got \in SUBSET sel :
          LET m     == wk[w].msg
              calls == GetItemCalls(wk[w].calls, sel)
          IN  IF got = {}
              THEN /\ queue' = DeleteMessage(queue, m)
                   /\ wk' = [wk EXCEPT
                         ![w].pc = "done", ![w].selected = sel, ![w].found = got,
                         ![w].calls = Append(calls, <<"delete_message", m>>),
                         ![w].result =
                             Return("No restaurant details found in DynamoDB", 0)]
              ELSE /\ wk' = [wk EXCEPT ![w].pc = "send", ![w].selected = sel,
                                       ![w].found = got, ![w].calls = calls]
                   /\ UNCHANGED queue
    /\ UNCHANGED <<outbox, dialogVars, validatorVars, routerVars, historyVars>>

\* the email of invocation w for the message it holds
Email(w) ==
    LET body == queue[wk[w].msg].body
    IN  [to |-> Val(Get(body, "Email")),
         cuisine |-> Capitalize(Val(Get(body, "Cuisine"))),
         location |-> display_location(Val(Get(body, "Location"))),
         restaurants |-> Cardinality(wk[w].found),
         msg |-> wk[w].msg]

\* the email handed to the service twice
SendEmailTwice(w) ==
    /\ wk[w].pc = "send"
    /\ outbox' = Append(Append(outbox, Email(w)), Email(w))
    /\ wk' = [wk EXCEPT ![w].pc = "delete",
                        ![w].calls = Call(w, "send_email", "ok")]
    /\ UNCHANGED <<queue, dialogVars, validatorVars, routerVars, historyVars>>

\* lines 163-180: the email service accepts the email
SendEmail(w) ==
    /\ wk[w].pc = "send"
    /\ outbox' = Append(outbox, Email(w))
    /\ wk' = [wk EXCEPT ![w].pc = "delete",
                        ![w].calls = Call(w, "send_email", "ok")]
    /\ UNCHANGED <<queue, dialogVars, validatorVars, routerVars, historyVars>>

\* the errors of the email service
SesErrors == {"MessageRejected", "Throttling"}

\* the except block raising again without its delete_message
SendEmailFailsNoDelete(w) ==
    /\ wk[w].pc = "send"
    /\ \E err \in SesErrors :
          wk' = [wk EXCEPT ![w].pc = "done",
                           ![w].calls = Call(w, "send_email", err),
                           ![w].result = Raised(err)]
    /\ UNCHANGED <<queue, outbox, dialogVars, validatorVars, routerVars, historyVars>>

\* lines 181-187: the email service fails: delete the message, raise again
SendEmailFails(w) ==
    /\ wk[w].pc = "send"
    /\ queue' = DeleteMessage(queue, wk[w].msg)
    /\ \E err \in SesErrors :
          wk' = [wk EXCEPT ![w].pc = "done",
                           ![w].calls = Append(Call(w, "send_email", err),
                                               <<"delete_message", wk[w].msg>>),
                           ![w].result = Raised(err)]
    /\ UNCHANGED <<outbox, dialogVars, validatorVars, routerVars, historyVars>>

\* lines 189-197
DeleteAndReturn(w) ==
    /\ wk[w].pc = "delete"
    /\ queue' = DeleteMessage(queue, wk[w].msg)
    /\ wk' = [wk EXCEPT ![w].pc = "done",
                        ![w].calls = Call(w, "delete_message", wk[w].msg),
                        ![w].result = Return("Email sent successfully",
                                             Cardinality(wk[w].found))]
    /\ UNCHANGED <<outbox, dialogVars, validatorVars, routerVars, historyVars>>

\* the hosting service stops an invocation that holds a message (a timeout,
\* a crash) between two of its steps
Crash(w) ==
    /\ wk[w].pc \in {"got", "search", "fetch", "send", "delete"}
    /\ wk' = [wk EXCEPT ![w].pc = "crashed"]
    /\ UNCHANGED <<queue, outbox, dialogVars, validatorVars, routerVars, historyVars>>

\* the queue's visibility timeout: a received message that was not deleted
\* becomes visible again
VisibilityTimeout(m) ==
    /\ queue[m].state = "inflight"
    /\ queue' = [queue EXCEPT ![m].state = "visible"]
    /\ UNCHANGED <<wk, outbox, dialogVars, validatorVars, routerVars, historyVars>>

FullBody ==
    [Location |-> Some("New York"), Cuisine |-> Some("italian"),
     DiningTime |-> Some("19:30"), NumberOfPeople |-> Some("4"),
     Email |-> Some("a@b.co")]

\* a body without the keys in gone
Without(body, gone) == [k \in (DOMAIN body) \ gone |-> body[k]]

\* the messages a queue is filled with; parses is FALSE when json.loads(Body)
\* raises
MessageKinds ==
    << [parses |-> TRUE, body |-> FullBody],
       [parses |-> TRUE, body |-> Without(FullBody, {"Email"})],
       [parses |-> TRUE, body |-> Without(FullBody, {"Cuisine"})],
       [parses |-> TRUE, body |-> [FullBody EXCEPT !["Email"] = Some("")]],
       [parses |-> TRUE, body |-> [FullBody EXCEPT !["Cuisine"] = Some("")]],
       [parses |-> FALSE, body |-> FullBody] >>

\* the queues of k visible messages; the ids of a queue carry no meaning, so
\* queues are listed up to the order of their messages
Queues(k) ==
    {[i \in 1..k |-> [parses |-> MessageKinds[f[i]].parses,
                      body |-> MessageKinds[f[i]].body,
                      state |-> "visible"]] :
        f \in {g \in [1..k -> 1..Len(MessageKinds)] :
                  \A i \in 1..(k - 1) : g[i] <= g[i + 1]}}

IdleDialog ==
    /\ event = [intent |-> "", source |-> "",
                slots |-> [n \in SlotNames |-> NoneSlot]]
    /\ phase = "idle"
    /\ response = NoResponse
    /\ pushOutcome = "not_called"
    /\ sent = <<>>
    /\ ran = FALSE

\* the numbers of hits an answer of the index holds
HitCounts == 0..MaxHits

\* one invocation, a queue of up to MaxMessages messages
InitWorker ==
    /\ IdleDialog
    /\ \E k \in 0..MaxMessages : queue \in Queues(k)
    /\ wk = [w \in {1} |-> FreshWorker]
    /\ outbox = <<>>
    /\ IdleValidator
    /\ IdleRouter

NextWorker ==
    \/ \E w \in DOMAIN wk : ReceiveNothing(w)
    \/ \E w \in DOMAIN wk : Receive(w)
    \/ \E w \in DOMAIN wk : Parse(w)
    \/ \E w \in DOMAIN wk : Search(w, HitCounts)
    \/ \E w \in DOMAIN wk : Fetch(w)
    \/ \E w \in DOMAIN wk : SendEmail(w)
    \/ \E w \in DOMAIN wk : SendEmailFails(w)
    \/ \E w \in DOMAIN wk : DeleteAndReturn(w)

WorkerSpec == InitWorker /\ [][NextWorker]_vars

\* NumWorkers invocations running concurrently over one message, invocations
\* that stop, and the visibility timeout; what an email lists does not matter
\* here, and the index answers with no hit or with one
ConcQueues == Queues(1)

ConcHitCounts == {0, 1}

InitConc ==
    /\ IdleDialog
    /\ queue \in ConcQueues
    /\ wk = [w \in 1..NumWorkers |-> FreshWorker]
    /\ outbox = <<>>
    /\ IdleValidator
    /\ IdleRouter

NextConc ==
    \/ \E w \in DOMAIN wk : ReceiveNothing(w)
    \/ \E w \in DOMAIN wk : Receive(w)
    \/ \E w \in DOMAIN wk : Parse(w)
    \/ \E w \in DOMAIN wk : Search(w, ConcHitCounts)
    \/ \E w \in DOMAIN wk : Fetch(w)
    \/ \E w \in DOMAIN wk : SendEmail(w)
    \/ \E w \in DOMAIN wk : SendEmailFails(w)
    \/ \E w \in DOMAIN wk : DeleteAndReturn(w)
    \/ \E w \in DOMAIN wk : Crash(w)
    \/ \E m \in DOMAIN queue : VisibilityTimeout(m)

ConcSpec == InitConc /\ [][NextConc]_vars

(***************************************************************************)
(* Properties of the Dialog Fulfillment Handler                            *)
(***************************************************************************)
Dining(src) ==
    /\ phase = "done"
    /\ event.intent = "DiningSuggestionsIntent"
    /\ event.source = src

\* the order the validators are documented to run in
ValidationOrder == <<"Location", "Cuisine", "NumberOfPeople", "DiningTime", "Email">>

\* slot name n of the slot set holds a value its field validator rejects
SlotFails(slots, n) ==
    LET v == get_slot_value(slots, n)
    IN  /\ ~IsNone(v)
        /\ CASE n = "Location"       -> ~is_valid_location(v)
             [] n = "Cuisine"        -> ~is_valid_cuisine(v)
             [] n = "NumberOfPeople" -> ~is_valid_number_of_people(v)
             [] n = "DiningTime"     -> ~is_valid_dining_time(v)
             [] n = "Email"          -> ~is_valid_email(v)

FirstFailing(slots) ==
    ValidationOrder[CHOOSE i \in 1..Len(ValidationOrder) :
                       /\ SlotFails(slots, ValidationOrder[i])
                       /\ \A j \in 1..(i - 1) : ~SlotFails(slots, ValidationOrder[j])]

\* C1: whenever the handler has sent a message to the queue, the slot set of
\* the event it was built from passes validate_dining_suggestion.
C1_EnqueuedOnlyIfValid ==
    (phase = "done" /\ sent # <<>>)
        => validate_dining_suggestion(event.slots).isValid

\* C4: in the dialog phase, a slot set with an invalid value is answered by
\* ElicitSlot for the first failing slot in the order Location, Cuisine,
\* NumberOfPeople, DiningTime, Email, with exactly that slot cleared.
C4_ElicitFirstFailing ==
    (Dining("DialogCodeHook") /\ \E n \in SlotNames : SlotFails(event.slots, n))
        => /\ response.type = "ElicitSlot"
           /\ response.slotToElicit = FirstFailing(event.slots)
           /\ response.slots =
                 {[event.slots EXCEPT ![FirstFailing(event.slots)] = NoneSlot]}

C4_Witness ==
    /\ Dining("DialogCodeHook")
    /\ SlotFails(event.slots, "NumberOfPeople")
    /\ SlotFails(event.slots, "DiningTime")
    /\ SlotFails(event.slots, "Email")
    /\ event.slots["Location"].kind = "Str"
    /\ response.type = "ElicitSlot"
    /\ response.slotToElicit = "NumberOfPeople"
    /\ \E s \in response.slots : s["NumberOfPeople"] = NoneSlot

\* C5: in the dialog phase, a slot set whose slots are all absent or valid is
\* answered by Delegate carrying the input slot set unchanged.
C5_DelegateUnchanged ==
    (Dining("DialogCodeHook") /\ \A n \in SlotNames : ~SlotFails(event.slots, n))
        => /\ response.type = "Delegate"
           /\ response.slots = {event.slots}

C5_Witness ==
    /\ Dining("DialogCodeHook")
    /\ \A n \in SlotNames : event.slots[n].kind = "Str"
    /\ response.type = "Delegate"
    /\ response.slots = {event.slots}

\* C6: the fulfillment phase always returns a Close directive, never an
\* exception; when push_to_sqs raised, the directive is Failed with the
\* failure message.
C6_FulfillmentCloses ==
    Dining("FulfillmentCodeHook")
        => /\ response.type = "Close"
           /\ pushOutcome = "raised"
                 => (response.state = "Failed" /\ response.message = FailureMessage)

C6_Witness ==
    /\ Dining("FulfillmentCodeHook")
    /\ pushOutcome = "raised"
    /\ event.slots["Location"].kind = "Str"
    /\ event.slots["Email"].kind = "None"
    /\ response.type = "Close"
    /\ response.state = "Failed"

(***************************************************************************)
(* Properties of the Suggestion Worker                                     *)
(***************************************************************************)
Ended(w) == wk[w].pc = "done"

HasCall(w, c) == \E i \in DOMAIN wk[w].calls : wk[w].calls[i] = c

\* the positions of the calls of operation op in the call log of w
CallsOf(w, op) == {i \in DOMAIN wk[w].calls : wk[w].calls[i][1] = op}

DeletedBy(w) == HasCall(w, <<"delete_message", wk[w].msg>>)

EmailSentBy(w) == HasCall(w, <<"send_email", "ok">>)

EmailsFor(m) == Cardinality({i \in DOMAIN outbox : outbox[i].msg = m})

Receipts(m) ==
    Cardinality({w \in DOMAIN wk : HasCall(w, <<"receive_message", m>>)})

\* the body has no usable value under key: the key is absent or holds ""
Lacks(body, key) == key \notin DOMAIN body \/ body[key] = Some("")

\* C2: an invocation that received a message and ended (returned or raised)
\* without a sent email has called delete_message for that message.
C2_UnprocessedIsDeleted ==
    \A w \in DOMAIN wk :
        (Ended(w) /\ wk[w].msg # 0 /\ ~EmailSentBy(w)) => DeletedBy(w)

\* C3: over any interleaving of invocations, at most one email is sent for
\* a message.
C3_AtMostOneEmail == \A m \in DOMAIN queue : EmailsFor(m) <= 1

\* C3, amended: an invocation receives at most one message and sends at most
\* one email, so the emails sent for a message never outnumber the times it
\* was received.
C3_AtMostOnePerReceipt ==
    /\ \A w \in DOMAIN wk :
          /\ Cardinality(CallsOf(w, "receive_message")) <= 1
          /\ Cardinality(CallsOf(w, "send_email")) <= 1
    /\ \A m \in DOMAIN queue : EmailsFor(m) <= Receipts(m)

C3_Witness ==
    \E m \in DOMAIN queue :
        /\ EmailsFor(m) = 2
        /\ Receipts(m) = 2
        /\ \E w \in DOMAIN wk : wk[w].pc = "crashed" /\ EmailSentBy(w)

C8_ZeroHitsNoReads ==
    \A w \in DOMAIN wk :
        wk[w].hits = 0
        => /\ Ended(w)
           /\ DeletedBy(w)
           /\ queue[wk[w].msg].state = "deleted"
           /\ CallsOf(w, "get_item") = {}
           /\ CallsOf(w, "send_email") = {}
           /\ outbox = <<>>

C8_Witness ==
    \E w \in DOMAIN wk :
        /\ wk[w].hits = 0
        /\ HasCall(w, <<"search_term", "error">>)
        /\ HasCall(w, <<"search_match", "ok">>)
        /\ queue[wk[w].msg].state = "deleted"

\* C9: when the email service fails, delete_message for the message is the
\* next and last call, and the invocation ends by raising that same error.
C9_EmailFailureDeletesThenRaises ==
    \A w \in DOMAIN wk : \A i \in CallsOf(w, "send_email") :
        wk[w].calls[i][2] # "ok"
        => /\ Len(wk[w].calls) = i + 1
           /\ wk[w].calls[i + 1] = <<"delete_message", wk[w].msg>>
           /\ queue[wk[w].msg].state = "deleted"
           /\ Ended(w)
           /\ wk[w].result = Raised(wk[w].calls[i][2])

C9_Witness ==
    \E w \in DOMAIN wk :
        /\ HasCall(w, <<"send_email", "Throttling">>)
        /\ wk[w].result.kind = "raise"
        /\ wk[w].result.status = "Throttling"
        /\ queue[wk[w].msg].state = "deleted"

\* C10: on the success path the hits looked up are min(5, hits) distinct
\* hits of the answer, each read once; restaurants_sent counts the reads that
\* returned a record and lies in 1..5; one email went to the message's Email
\* address, and delete_message follows send_email.
C10_SuccessPath ==
    \A w \in DOMAIN wk :
        (Ended(w) /\ wk[w].result.status = "Email sent successfully")
        => LET c == wk[w].calls
               n == Len(c)
           IN  /\ wk[w].selected \subseteq 1..wk[w].hits
               /\ Cardinality(wk[w].selected)
                     = (IF wk[w].hits < 5 THEN wk[w].hits ELSE 5)
               /\ {c[i][2] : i \in CallsOf(w, "get_item")} = wk[w].selected
               /\ Cardinality(CallsOf(w, "get_item"))
                     = Cardinality(wk[w].selected)
               /\ wk[w].found \subseteq wk[w].selected
               /\ wk[w].result.restaurants_sent = Cardinality(wk[w].found)
               /\ 1 <= wk[w].result.restaurants_sent
               /\ wk[w].result.restaurants_sent <= 5
               /\ Len(outbox) = 1
               /\ outbox[1].to = Val(queue[wk[w].msg].body["Email"])
               /\ outbox[1].msg = wk[w].msg
               /\ outbox[1].restaurants = Cardinality(wk[w].found)
               /\ CallsOf(w, "send_email") = {n - 1}
               /\ c[n - 1] = <<"send_email", "ok">>
               /\ CallsOf(w, "delete_message") = {n}
               /\ c[n] = <<"delete_message", wk[w].msg>>

C10_Witness ==
    \E w \in DOMAIN wk :
        /\ Ended(w)
        /\ wk[w].result.status = "Email sent successfully"
        /\ wk[w].hits = 6
        /\ Cardinality(wk[w].selected) = 5
        /\ wk[w].result.restaurants_sent = 3
        /\ Len(outbox) = 1
        /\ queue[wk[w].msg].state = "deleted"

(***************************************************************************)
(* The round trip of a request: the fulfillment phase of LF1.py writes the *)
(* record, the queue hands it to one invocation of LF2.py.  The queue may  *)
(* also hold a record of another producer, with any spelling of Location.  *)
(***************************************************************************)
RoundTripLocations ==
    {"Manhattan", "MANHATTAN", "manhattan", "Manhattan ", "brooklyn ", "Boston"}

RoundTripSlotSets ==
    {[n \in SlotNames |->
         CASE n = "Location"       -> StrSlot(l)
           [] n = "Cuisine"        -> StrSlot("Italian")
           [] n = "NumberOfPeople" -> StrSlot("4")
           [] n = "DiningTime"     -> StrSlot("19:30")
           [] n = "Email"          -> StrSlot("a@b.co")] :
        l \in RoundTripLocations}

\* the Location values of the records of other producers
WorkerLocations ==
    {"New York", "new york, ny", "New York City", " NYC ", "ny, ny",
     "Manhattan", "Brooklyn", " Queens "}

RoundTripQueues ==
    {<<>>} \cup
    {<< [parses |-> TRUE, body |-> [FullBody EXCEPT !["Location"] = Some(l)],
         state |-> "visible"] >> : l \in WorkerLocations}

InitRoundTrip ==
    /\ event \in [intent : {"DiningSuggestionsIntent"},
                  source : {"DialogCodeHook", "FulfillmentCodeHook"},
                  slots : RoundTripSlotSets]
    /\ phase = "pending"
    /\ response = NoResponse
    /\ pushOutcome = "not_called"
    /\ sent = <<>>
    /\ ran = FALSE
    /\ queue \in RoundTripQueues
    /\ wk = [w \in {1} |-> FreshWorker]
    /\ outbox = <<>>
    /\ IdleValidator
    /\ IdleRouter

\* the queue takes the body send_message was given (LF1.py line 181) and
\* hands it out as the Body of a message (LF2.py line 55); json.dumps and
\* json.loads keep a dict of strings and nulls as it is
Deliver ==
    /\ phase = "done"
    /\ sent # <<>>
    /\ queue' = Append(queue, [parses |-> TRUE, body |-> sent[1],
                               state |-> "visible"])
    /\ phase' = "delivered"
    /\ UNCHANGED <<event, response, pushOutcome, sent, ran, wk, outbox,
                   validatorVars, routerVars, historyVars>>

NextRoundTrip ==
    \/ Invoke
    \/ Deliver
    \/ \E w \in DOMAIN wk : ReceiveNothing(w)
    \/ \E w \in DOMAIN wk : Receive(w)
    \/ \E w \in DOMAIN wk : Parse(w)
    \/ \E w \in DOMAIN wk : Search(w, ConcHitCounts)
    \/ \E w \in DOMAIN wk : Fetch(w)
    \/ \E w \in DOMAIN wk : SendEmail(w)
    \/ \E w \in DOMAIN wk : SendEmailFails(w)
    \/ \E w \in DOMAIN wk : DeleteAndReturn(w)

RoundTripSpec == InitRoundTrip /\ [][NextRoundTrip]_vars

(***************************************************************************)
(* Properties of the round trip                                            *)
(***************************************************************************)
\* the spellings the worker is documented to show as "manhattan"
DocumentedSynonyms ==
    {"manhattan", "new york", "new york, ny", "new york city", "nyc", "ny, ny"}

\* the Location slot of the event is "manhattan" in some letter case
ManhattanSlot ==
    /\ phase \in {"done", "delivered"}
    /\ is_valid_location(get_slot_value(event.slots, "Location"))
    /\ Lower(Val(get_slot_value(event.slots, "Location"))) = "manhattan"

ValidateLocations ==
    {NoneSlot, StrSlot("Manhattan"), StrSlot(" Brooklyn "), StrSlot("Boston")}

ValidateCuisines ==
    {NoneSlot, StrSlot("Italian"), StrSlot("JAPANESE"), StrSlot("thai"),
     StrSlot("Italian "), StrSlot("french"), StrSlot("")}

ValidatePeople ==
    {NoneSlot, StrSlot("1"), StrSlot("20"), StrSlot(" 7 "), StrSlot("0"),
     StrSlot("21"), StrSlot("-3"), StrSlot("two"), StrSlot("4.5"), StrSlot("")}

ValidateTimes ==
    {NoneSlot, StrSlot("19:30"), StrSlot("0:0"), StrSlot("23:59"),
     StrSlot(" 7 : 05 "), StrSlot("7 pm"), StrSlot("abc"), StrSlot(""),
     StrSlot("24:00"), StrSlot("12:60"), StrSlot("-1:30"), StrSlot(":30"),
     StrSlot("7:"), StrSlot("ab:cd"), StrSlot("7:30:15"), StrSlot("7:30:xx"),
     StrSlot("7::30")}

ValidateEmails == {NoneSlot, StrSlot("a@b.co"), StrSlot("a@b")}

ValidateSlotSets ==
    {[n \in SlotNames |->
         CASE n = "Location"       -> l
           [] n = "Cuisine"        -> c
           [] n = "NumberOfPeople" -> p
           [] n = "DiningTime"     -> t
           [] n = "Email"          -> e] :
        l \in ValidateLocations, c \in ValidateCuisines, p \in ValidatePeople,
        t \in ValidateTimes, e \in ValidateEmails}

\* the is_valid_* function of a slot, applied to the slot's value
FieldValid(name, value) ==
    CASE name = "Location"       -> is_valid_location(value)
      [] name = "Cuisine"        -> is_valid_cuisine(value)
      [] name = "NumberOfPeople" -> is_valid_number_of_people(value)
      [] name = "DiningTime"     -> is_valid_dining_time(value)
      [] name = "Email"          -> is_valid_email(value)

InitValidate ==
    /\ slot_set \in ValidateSlotSets
    /\ validation = [ran |-> FALSE]
    /\ IdleDialog
    /\ IdleWorker
    /\ IdleRouter

Validate ==
    /\ ~validation.ran
    /\ validation' =
          [ran |-> TRUE,
           result |-> validate_dining_suggestion(slot_set),
           field |-> [n \in SlotNames |->
                         FieldValid(n, get_slot_value(slot_set, n))]]
    /\ UNCHANGED <<slot_set, dialogVars, workerVars, routerVars, historyVars>>

NextValidate == Validate

ValidateSpec == InitValidate /\ [][NextValidate]_vars

(***************************************************************************)
(* Properties of the validators                                            *)
(***************************************************************************)
SlotValue(name) == get_slot_value(slot_set, name)

\* the 7 cuisines the handler is documented to allow
AllowedCuisines ==
    {"chinese", "italian", "mexican", "japanese", "indian", "turkish", "spanish"}

\* the Cuisine value is a string that is no allowed cuisine in any letter case
BadCuisine ==
    /\ ~IsNone(SlotValue("Cuisine"))
    /\ Lower(Val(SlotValue("Cuisine"))) \notin AllowedCuisines

\* the Location value is a string the location validator rejects
BadLocation ==
    /\ ~IsNone(SlotValue("Location"))
    /\ ~validation.field["Location"]

\* C12 as stated: a Cuisine string outside the allowed cuisines makes
\* validate_dining_suggestion fail with violatedSlot "Cuisine", whatever the
\* other slots hold.
C12_BadCuisineViolatesCuisine ==
    validation.ran /\ BadCuisine
       => /\ ~validation.result.isValid
          /\ validation.result.violatedSlot = "Cuisine"

\* C12 amended: a Cuisine string outside the allowed cuisines makes
\* validate_dining_suggestion fail; the violated slot is "Cuisine" when the
\* Location value is absent or valid, and "Location" when it is not.
C12_BadCuisineAfterLocation ==
    validation.ran /\ BadCuisine
       => /\ ~validation.result.isValid
          /\ ~validation.field["Cuisine"]
          /\ validation.result.violatedSlot =
                IF BadLocation THEN "Location" ELSE "Cuisine"

\* "Italian " (a trailing blank) with a valid Location fails on Cuisine
C12_Witness ==
    /\ validation.ran
    /\ slot_set["Cuisine"] = StrSlot("Italian ")
    /\ slot_set["Location"] = StrSlot("Manhattan")
    /\ slot_set["NumberOfPeople"] = StrSlot("21")
    /\ validation.result.violatedSlot = "Cuisine"

\* the Cuisine value is a string the cuisine validator rejects
RejectedCuisine ==
    /\ ~IsNone(SlotValue("Cuisine"))
    /\ ~validation.field["Cuisine"]

\* the NumberOfPeople value is a string int() parses to a number in 1..20
PeopleInRange ==
    /\ ~IsNone(SlotValue("NumberOfPeople"))
    /\ PyInt(Val(SlotValue("NumberOfPeople"))).ok
    /\ PyInt(Val(SlotValue("NumberOfPeople"))).val \in 1..20

\* the NumberOfPeople value is a string that int() does not parse, or parses
\* to a number outside 1..20
BadPeople == ~IsNone(SlotValue("NumberOfPeople")) /\ ~PeopleInRange

\* C13 as stated: a NumberOfPeople string that is no integer, or an integer
\* outside 1..20, makes validate_dining_suggestion fail with violatedSlot
\* "NumberOfPeople" whatever the other slots hold; a value in 1..20 never
\* causes that violation.
C13_BadPeopleViolatesPeople ==
    /\ validation.ran /\ BadPeople
          => /\ ~validation.result.isValid
             /\ validation.result.violatedSlot = "NumberOfPeople"
    /\ validation.ran /\ PeopleInRange
          => validation.result.violatedSlot # "NumberOfPeople"

\* C13 amended: a NumberOfPeople string that is no integer, or an integer
\* outside 1..20, makes validate_dining_suggestion fail; the violated slot
\* is "NumberOfPeople" when Location and Cuisine are absent or valid, else
\* the first of Location and Cuisine that is rejected.  A value in 1..20
\* never causes a NumberOfPeople violation.
C13_BadPeopleAfterLocationCuisine ==
    /\ validation.ran /\ BadPeople
          => /\ ~validation.result.isValid
             /\ ~validation.field["NumberOfPeople"]
             /\ validation.result.violatedSlot =
                   IF BadLocation THEN "Location"
                   ELSE IF RejectedCuisine THEN "Cuisine"
                   ELSE "NumberOfPeople"
    /\ validation.ran /\ PeopleInRange
          => /\ validation.field["NumberOfPeople"]
             /\ validation.result.violatedSlot # "NumberOfPeople"

\* "0" people with a valid Location and Cuisine fails on NumberOfPeople
C13_Witness ==
    /\ validation.ran
    /\ slot_set["NumberOfPeople"] = StrSlot("0")
    /\ slot_set["Location"] = StrSlot(" Brooklyn ")
    /\ slot_set["Cuisine"] = StrSlot("JAPANESE")
    /\ slot_set["DiningTime"] = StrSlot("24:00")
    /\ validation.result.violatedSlot = "NumberOfPeople"

\* the dining time is a string; its parts around the first colon
TimeString == Val(SlotValue("DiningTime"))
BeforeColon == SubSeq(TimeString, 1, IndexOf(TimeString, ":") - 1)
AfterColon == SubSeq(TimeString, IndexOf(TimeString, ":") + 1, Len(TimeString))

\* the string parses as an integer from lo to hi
IntIn(str, lo, hi) == PyInt(str).ok /\ PyInt(str).val \in lo..hi

\* C14: is_valid_dining_time accepts every dining-time string without a
\* colon; a string with a colon it accepts exactly when the part before the
\* first colon parses as an integer in 0..23 and the part after that colon
\* parses as an integer in 0..59.
C14_DiningTimeRule ==
    validation.ran /\ ~IsNone(SlotValue("DiningTime"))
       => validation.field["DiningTime"] =
             IF IndexOf(TimeString, ":") = 0 THEN TRUE
             ELSE IntIn(BeforeColon, 0, 23) /\ IntIn(AfterColon, 0, 59)

(***************************************************************************)
(* LF0.py: the Message Router.  A JSON value is a record [t, v]: t is the  *)
(* Python type json.loads gives it ("null", "str", "num", "list", "dict")  *)
(* and v its value, a dict being a function from its keys.  A str that     *)
(* holds JSON text is [t |-> "text", v |-> [parses, value]]: json.loads    *)
(* returns value when parses, and raises JSONDecodeError when not.  An     *)
(* operation that raises yields [t |-> "exc", v |-> the exception's name]. *)
(***************************************************************************)
JNull == [t |-> "null", v |-> 0]
JStr(s) == [t |-> "str", v |-> s]
JNum(n) == [t |-> "num", v |-> n]
JList(seq) == [t |-> "list", v |-> seq]
JDict(f) == [t |-> "dict", v |-> f]
JText(parses, value) == [t |-> "text", v |-> [parses |-> parses, value |-> value]]
JBool(b) == [t |-> "bool", v |-> b]
Exc(name) == [t |-> "exc", v |-> name]
IsExc(x) == x.t = "exc"

\* bool(x)
Truthy(x) ==
    CASE x.t = "null" -> FALSE
      [] x.t = "str"  -> x.v # ""
      [] x.t = "num"  -> x.v # 0
      [] x.t = "list" -> Len(x.v) > 0
      [] x.t = "dict" -> DOMAIN x.v # {}
      [] x.t = "bool" -> x.v

\* "k in s" for two strings
IsSubstring(k, s) ==
    \E i \in 1..(Len(s) - Len(k) + 1) : SubSeq(s, i, i + Len(k) - 1) = k

\* "k in x" for a string k
Contains(k, x) ==
    CASE x.t = "exc"  -> x
      [] x.t = "dict" -> JBool(k \in DOMAIN x.v)
      [] x.t = "list" -> JBool(\E i \in DOMAIN x.v :
                                  x.v[i].t = "str" /\ x.v[i].v = k)
      [] x.t = "str"  -> JBool(IsSubstring(k, x.v))
      [] OTHER        -> Exc("TypeError")

\* x[k] for a string k
Subscript(x, k) ==
    CASE x.t = "exc"  -> x
      [] x.t = "dict" -> IF k \in DOMAIN x.v THEN x.v[k] ELSE Exc("KeyError")
      [] OTHER        -> Exc("TypeError")

\* x[-1]
LastOf(x) ==
    CASE x.t = "exc"  -> x
      [] x.t = "list" -> IF Len(x.v) > 0 THEN x.v[Len(x.v)]
                         ELSE Exc("IndexError")
      [] x.t = "str"  -> IF Len(x.v) > 0 THEN JStr(SubSeq(x.v, Len(x.v), Len(x.v)))
                         ELSE Exc("IndexError")
      [] x.t = "dict" -> Exc("KeyError")
      [] OTHER        -> Exc("TypeError")

\* x.get(k, default)
DictGet(x, k, default) ==
    IF IsExc(x) THEN x
    ELSE IF x.t = "dict"
    THEN IF k \in DOMAIN x.v THEN x.v[k] ELSE default
    ELSE Exc("AttributeError")

\* the dict {}
EmptyDict == JDict(<<>>)

\* lines 91-96 and 112-117: the headers of every response
CorsHeaders ==
    [ContentType |-> "application/json",
     AccessControlAllowOrigin |-> "*",
     AccessControlAllowHeaders |-> "Content-Type,x-session-id",
     AccessControlAllowMethods |-> "POST, OPTIONS"]

\* lines 108-122
error_response(status_code, message) ==
    [statusCode |-> status_code, headers |-> CorsHeaders,
     body |-> [kind |-> "error", code |-> status_code, message |-> message,
               messages |-> <<>>]]

\* lines 76-98: the envelope around the reply of the conversational service
ok_response(lex_response_text) ==
    [statusCode |-> 200, headers |-> CorsHeaders,
     body |-> [kind |-> "messages", code |-> 0, message |-> "",
               messages |-> << [type |-> "unstructured",
                                text |-> lex_response_text] >>]]

LexFallback == "Sorry, I didn't understand that. Could you try again?"

\* ' '.join(list)
RECURSIVE JoinSpace(_)
JoinSpace(list) ==
    IF Len(list) = 0 THEN ""
    ELSE IF Len(list) = 1 THEN list[1]
    ELSE list[1] \o " " \o JoinSpace(Tail(list))

\* recognize_text checks its parameters before it sends the request:
\* sessionId is a str of at least 2 characters
SessionIdAccepted(session_id) == session_id.t = "str" /\ Len(session_id.v) >= 2

\* lines 13-35: lex is what the conversational service does with the request,
\* [ok |-> FALSE] when recognize_text raises and else the fragments of the
\* reply, each the set of its content ({} when it has none)
send_to_lex(message_text, session_id, lex) ==
    IF ~SessionIdAccepted(session_id) THEN Exc("ParamValidationError")
    ELSE IF ~lex.ok THEN Exc("ClientError")
    ELSE IF Len(lex.messages) > 0
    THEN JStr(JoinSpace([i \in DOMAIN lex.messages |->
                            IF lex.messages[i] = {} THEN ""
                            ELSE Val(lex.messages[i])]))
    ELSE JStr(LexFallback)
\* line 43: json.loads(event['body']) if it is a str, else event['body']
request_body(raw) ==
    IF IsExc(raw) THEN raw
    ELSE IF raw.t = "text"
    THEN IF raw.v.parses THEN raw.v.value ELSE Exc("JSONDecodeError")
    ELSE raw

\* an early return with the 400 response of this message
Return400(message) == [t |-> "return", v |-> message]

\* lines 48-55: the text of the last message
user_text_of(messages) ==
    LET last_message    == LastOf(messages)
        hasUnstructured == Contains("unstructured", last_message)
        hasText         == Contains("text", last_message)
    IN  IF IsExc(hasUnstructured) THEN hasUnstructured
        ELSE IF hasUnstructured.v
        THEN DictGet(Subscript(last_message, "unstructured"), "text", JStr(""))
        ELSE IF hasText.v
        THEN DictGet(last_message, "text", JStr(""))
        ELSE Return400("Message has no text content")

\* str.replace('.', '-')
RECURSIVE ReplaceDots(_)
ReplaceDots(s) ==
    IF s = "" THEN ""
    ELSE (IF Head(s) = "." THEN "-" ELSE Head(s)) \o ReplaceDots(Tail(s))

\* the source address with its dots replaced
source_ip_session(source_ip) ==
    IF source_ip.t = "str" THEN JStr(ReplaceDots(source_ip.v))
    ELSE Exc("AttributeError")

\* the session of a request that names none
DefaultSession == JStr("default-user")

\* lines 62-70: the session key, body being a dict at this point
session_id_of(ev, body) ==
    LET header    == DictGet(DictGet(ev, "headers", EmptyDict),
                             "x-session-id", JNull)
        source_ip == DictGet(DictGet(DictGet(ev, "requestContext", EmptyDict),
                                     "identity", EmptyDict),
                             "sourceIp", JNull)
    IN  IF "sessionId" \in DOMAIN body.v THEN body.v["sessionId"]
        ELSE IF IsExc(header) THEN header
        ELSE IF Truthy(header) THEN header
        ELSE IF IsExc(source_ip) THEN source_ip
        ELSE IF Truthy(source_ip) THEN source_ip_session(source_ip)
        ELSE DefaultSession

\* what the try block of lambda_handler comes to: exc is "" when it returns
\* resp and the exception's name when it raises; calls are the
\* recognize_text calls it made
RouterRaise(exc, calls) == [exc |-> exc, resp |-> error_response(0, ""), calls |-> calls]
RouterReturn(resp, calls) == [exc |-> "", resp |-> resp, calls |-> calls]

\* recognize_text raises
LexFails == [ok |-> FALSE, messages |-> <<>>]

\* lines 60-98: the request has a text: forward it and wrap the reply
forward(ev, body, user_text, lex) ==
    LET session_id == session_id_of(ev, body)
        calls      == << [sessionId |-> session_id, text |-> user_text,
                             outcome |-> IF SessionIdAccepted(session_id)
                                         THEN lex ELSE LexFails] >>
        reply      == send_to_lex(user_text, session_id, lex)
    IN  IF IsExc(session_id) THEN RouterRaise(session_id.v, <<>>)
        ELSE IF IsExc(reply) THEN RouterRaise(reply.v, calls)
        ELSE RouterReturn(ok_response(reply.v), calls)

\* lines 40-98
router_try(ev, lex) ==
    LET hasBody     == Contains("body", ev)
        body        == request_body(Subscript(ev, "body"))
        hasMessages == Contains("messages", body)
        messages    == Subscript(body, "messages")
        user_text   == user_text_of(messages)
    IN  IF IsExc(hasBody) THEN RouterRaise(hasBody.v, <<>>)
        ELSE IF ~hasBody.v
        THEN RouterReturn(error_response(400, "Missing request body"), <<>>)
        ELSE IF IsExc(body) THEN RouterRaise(body.v, <<>>)
        ELSE IF IsExc(hasMessages) THEN RouterRaise(hasMessages.v, <<>>)
        ELSE IF ~hasMessages.v
        THEN RouterReturn(error_response(400, "Missing or empty messages array"), <<>>)
        ELSE IF IsExc(messages) THEN RouterRaise(messages.v, <<>>)
        ELSE IF ~Truthy(messages)
        THEN RouterReturn(error_response(400, "Missing or empty messages array"), <<>>)
        ELSE IF IsExc(user_text) THEN RouterRaise(user_text.v, <<>>)
        ELSE IF user_text.t = "return"
        THEN RouterReturn(error_response(400, user_text.v), <<>>)
        ELSE IF ~Truthy(user_text)
        THEN RouterReturn(error_response(400, "Empty message text"), <<>>)
        ELSE IF user_text.t # "str" THEN RouterRaise("AttributeError", <<>>)
        ELSE IF Strip(user_text.v) = ""
        THEN RouterReturn(error_response(400, "Empty message text"), <<>>)
        ELSE forward(ev, body, user_text.v, lex)

\* what an invocation of the router ends in
RouterReturned(resp, calls) == [kind |-> "return", resp |-> resp, calls |-> calls]
RouterRaised(exc, calls) ==
    [kind |-> "raise", resp |-> error_response(0, exc), calls |-> calls]

\* an except block for json.JSONDecodeError alone
router_except_json_only(exc, calls) ==
    IF exc = "JSONDecodeError"
    THEN RouterReturned(error_response(400, "Invalid JSON in request body"), calls)
    ELSE RouterRaised(exc, calls)

\* lines 100-105: the two except blocks
router_except(exc, calls) ==
    IF exc = "JSONDecodeError"
    THEN RouterReturned(error_response(400, "Invalid JSON in request body"), calls)
    ELSE RouterReturned(error_response(500, "Internal server error"), calls)

\* lines 38-105
router_lambda_handler(ev, lex) ==
    LET r == router_try(ev, lex)
    IN  IF r.exc = "" THEN RouterReturned(r.resp, r.calls)
        ELSE router_except(r.exc, r.calls)
(***************************************************************************)
(* One invocation of the router: the gateway hands lambda_handler an       *)
(* event, the conversational service answers the call the handler makes.   *)
(***************************************************************************)
Unstructured(text) == JDict([unstructured |-> JDict([text |-> text])])
Plain(text) == JDict([text |-> text])

\* the values of the body's "messages" that carry a text to forward
TextMessages ==
    <<JList(<<Unstructured(JStr("hello"))>>),
      JList(<<Plain(JStr("hello"))>>),
      JList(<<Unstructured(JStr("")), Plain(JStr(" table for two "))>>)>>

\* the values whose text is missing or blank, or that are no list of objects
OtherMessages ==
    <<JList(<<Unstructured(JStr(""))>>),
      JList(<<Plain(JStr("   "))>>),
      JList(<<Plain(JStr("hello")), Plain(JStr(""))>>),
      JList(<<JDict([unstructured |-> EmptyDict])>>),
      JList(<<JDict([type |-> JStr("unstructured")])>>),
      JList(<<Plain(JNull)>>),
      JList(<<Plain(JNum(5))>>),
      JList(<<JDict([unstructured |-> JNull])>>),
      JList(<<JDict([unstructured |-> JStr("hello")])>>),
      JList(<<JNum(5)>>),
      JList(<<JNull>>),
      JList(<<JStr("hi")>>),
      JList(<<JStr("some text")>>),
      JList(<<>>),
      JNull,
      JStr("hi"),
      JNum(7),
      JDict([first |-> Plain(JStr("hello"))])>>

\* the values of the body's "sessionId"
SessionFields == <<JStr("sess-1"), JStr(""), JNull, JNum(42)>>

\* the bodies that are JSON objects: each value of "messages" without a
\* sessionId, each text-carrying one with each sessionId, and two bodies
\* without "messages"
ObjectBodies ==
    [i \in 1..Len(TextMessages \o OtherMessages) |->
        JDict([messages |-> (TextMessages \o OtherMessages)[i]])]
    \o [k \in 1..(Len(TextMessages) * Len(SessionFields)) |->
           JDict([messages |-> TextMessages[((k - 1) \div Len(SessionFields)) + 1],
                  sessionId |-> SessionFields[((k - 1) % Len(SessionFields)) + 1]])]
    \o <<JDict([sessionId |-> JStr("sess-1")]), EmptyDict>>

\* the bodies that are no JSON object
OtherBodies == <<JList(<<>>), JList(<<JStr("messages")>>), JNull, JNum(5)>>

\* the JSON values a body text holds
TextBodies == ObjectBodies \o OtherBodies \o <<JStr("hi"), JStr("no messages")>>

\* event['body']: an object of the invoker, or a str: JSON text or not
EventBodies ==
    ObjectBodies \o OtherBodies
    \o [i \in 1..Len(TextBodies) |-> JText(TRUE, TextBodies[i])]
    \o <<JText(FALSE, JNull)>>

Absent == [present |-> FALSE, value |-> JNull]
Present(value) == [present |-> TRUE, value |-> value]

BodyFields == <<Absent>> \o [i \in 1..Len(EventBodies) |-> Present(EventBodies[i])]

HeaderFields ==
    <<Absent, Present(JNull), Present(EmptyDict),
      Present(JDict("x-session-id" :> JStr("hdr-9"))),
      Present(JDict("x-session-id" :> JStr("")))>>

Identity(source_ip) == JDict([identity |-> JDict([sourceIp |-> source_ip])])

ContextFields ==
    <<Absent, Present(Identity(JStr("10.0.0.7"))), Present(Identity(JStr(""))),
      Present(JDict([identity |-> EmptyDict])),
      Present(JDict([identity |-> JNull]))>>

\* the dict of the keys that are present
EventOf(body, headers, context) ==
    JDict([k \in (IF body.present THEN {"body"} ELSE {})
                 \cup (IF headers.present THEN {"headers"} ELSE {})
                 \cup (IF context.present THEN {"requestContext"} ELSE {}) |->
              CASE k = "body"           -> body.value
                [] k = "headers"        -> headers.value
                [] k = "requestContext" -> context.value])

\* what the conversational service does with a request
LexOutcomes ==
    {LexFails,
     [ok |-> TRUE, messages |-> <<>>],
     [ok |-> TRUE, messages |-> <<Some("Hi there!")>>],
     [ok |-> TRUE, messages |-> <<Some("Which city?"), Some("Manhattan or Brooklyn")>>],
     [ok |-> TRUE, messages |-> <<Some("Here you go"), None>>]}

NoReply == [kind |-> "none", resp |-> error_response(0, "")]

InitRouter ==
    /\ \E b \in DOMAIN BodyFields, h \in DOMAIN HeaderFields,
          c \in DOMAIN ContextFields :
          http_event = EventOf(BodyFields[b], HeaderFields[h], ContextFields[c])
    /\ http_reply = NoReply
    /\ lex_calls = <<>>
    /\ elicited = <<>>
    /\ IdleDialog
    /\ IdleWorker
    /\ IdleValidator

\* one invocation of lambda_handler, from the event to the response
RouterInvoke ==
    /\ http_reply.kind = "none"
    /\ \E lex \in LexOutcomes :
          LET r == router_lambda_handler(http_event, lex)
          IN  /\ http_reply' = [kind |-> r.kind, resp |-> r.resp]
              /\ lex_calls' = r.calls
    /\ UNCHANGED <<http_event, dialogVars, workerVars, validatorVars, historyVars>>

NextRouter == RouterInvoke

RouterSpec == InitRouter /\ [][NextRouter]_vars

(***************************************************************************)
(* Properties of the Message Router                                        *)
(***************************************************************************)
Replied == http_reply.kind # "none"

Status == http_reply.resp.statusCode

\* the request has no body
BodyMissing == "body" \notin DOMAIN http_event.v

\* the body is a string that is no JSON text
BodyUnparsable ==
    /\ ~BodyMissing
    /\ http_event.v["body"].t = "text"
    /\ ~http_event.v["body"].v.parses

\* the body as a JSON value
ParsedBody ==
    IF http_event.v["body"].t = "text" THEN http_event.v["body"].v.value
    ELSE http_event.v["body"]

\* the body is an object with a non-empty list of messages
HasMessageList ==
    /\ ParsedBody.t = "dict"
    /\ "messages" \in DOMAIN ParsedBody.v
    /\ ParsedBody.v["messages"].t = "list"
    /\ Len(ParsedBody.v["messages"].v) > 0

LastMessage == ParsedBody.v["messages"].v[Len(ParsedBody.v["messages"].v)]

\* the last message is an object that carries a text, in one of its two shapes
CarriesText ==
    /\ LastMessage.t = "dict"
    /\ IF "unstructured" \in DOMAIN LastMessage.v
       THEN /\ LastMessage.v["unstructured"].t = "dict"
            /\ "text" \in DOMAIN LastMessage.v["unstructured"].v
            /\ LastMessage.v["unstructured"].v["text"].t = "str"
       ELSE /\ "text" \in DOMAIN LastMessage.v
            /\ LastMessage.v["text"].t = "str"

RequestText ==
    IF "unstructured" \in DOMAIN LastMessage.v
    THEN LastMessage.v["unstructured"].v["text"].v
    ELSE LastMessage.v["text"].v

\* the body is missing, unparsable or malformed, or its text is blank
BadRequest ==
    \/ BodyMissing
    \/ BodyUnparsable
    \/ ~HasMessageList
    \/ ~CarriesText
    \/ Strip(RequestText) = ""

\* C15: a request whose body is missing, is no JSON text, is no object with
\* a non-empty messages list whose last element is an object carrying text,
\* or whose text is empty or blank, is answered with status 400 and a
\* {code, message} body and without a call of the conversational service;
\* status 500 is the answer to other failures only.
C15_BadRequestIs400 ==
    Replied /\ BadRequest
       => /\ http_reply.kind = "return"
          /\ Status = 400
          /\ http_reply.resp.body.kind = "error"
          /\ http_reply.resp.body.code = 400
          /\ lex_calls = <<>>

\* the text the router is documented to relay for the fragments of a reply
RelayedText(fragments) ==
    IF Len(fragments) = 0
    THEN "Sorry, I didn't understand that. Could you try again?"
    ELSE JoinSpace([i \in DOMAIN fragments |->
                       IF fragments[i] = {} THEN "" ELSE Val(fragments[i])])

\* C16: an invocation of the router returns a response and never raises;
\* the status is 200, 400 or 500 and the headers allow every origin; the
\* status is 200 only when the call of the conversational service returned,
\* and the body then holds one unstructured message whose text is the
\* fragments of the reply joined by spaces, or the fallback sentence when
\* the reply has no fragment.
C16_AlwaysResponds ==
    Replied
       => /\ http_reply.kind = "return"
          /\ Status \in {200, 400, 500}
          /\ http_reply.resp.headers.AccessControlAllowOrigin = "*"
          /\ http_reply.resp.headers.AccessControlAllowHeaders # ""
          /\ http_reply.resp.headers.AccessControlAllowMethods # ""
          /\ Status = 200
                => /\ Len(lex_calls) = 1
                   /\ lex_calls[1].outcome.ok
                   /\ http_reply.resp.body.kind = "messages"
                   /\ Len(http_reply.resp.body.messages) = 1
                   /\ http_reply.resp.body.messages[1].type = "unstructured"
                   /\ http_reply.resp.body.messages[1].text =
                         RelayedText(lex_calls[1].outcome.messages)
          /\ Status # 200 => http_reply.resp.body.kind = "error"

\* a reply of two fragments was relayed with status 200
C16_Witness ==
    /\ Replied
    /\ Status = 200
    /\ Len(lex_calls[1].outcome.messages) = 2
    /\ http_reply.resp.body.messages[1].text = "Which city? Manhattan or Brooklyn"

\* two JSON values are the same value
SameJson(a, b) == a.t = b.t /\ a.v = b.v

\* the x-session-id header and the caller's address, when the event has them
HeaderGiven ==
    /\ "headers" \in DOMAIN http_event.v
    /\ http_event.v["headers"].t = "dict"
    /\ "x-session-id" \in DOMAIN http_event.v["headers"].v
    /\ Truthy(http_event.v["headers"].v["x-session-id"])

SourceIp == http_event.v["requestContext"].v["identity"].v["sourceIp"]

SourceIpKnown ==
    /\ "requestContext" \in DOMAIN http_event.v
    /\ http_event.v["requestContext"].t = "dict"
    /\ "identity" \in DOMAIN http_event.v["requestContext"].v
    /\ http_event.v["requestContext"].v["identity"].t = "dict"
    /\ "sourceIp" \in DOMAIN http_event.v["requestContext"].v["identity"].v
    /\ Truthy(SourceIp)

\* the session key by the documented priority
SessionByPriority ==
    IF "sessionId" \in DOMAIN ParsedBody.v THEN ParsedBody.v["sessionId"]
    ELSE IF HeaderGiven THEN http_event.v["headers"].v["x-session-id"]
    ELSE IF SourceIpKnown THEN JStr(ReplaceDots(SourceIp.v))
    ELSE JStr("default-user")

\* C17: the session key of the recognize_text call is the body's sessionId
\* when the body has one, else the x-session-id header when it is given,
\* else the caller's address with its dots replaced by hyphens when it is
\* known, else "default-user"; and it is a non-empty string.
C17_SessionKeyPriority ==
    \A i \in DOMAIN lex_calls :
       /\ SameJson(lex_calls[i].sessionId, SessionByPriority)
       /\ lex_calls[i].sessionId.t = "str"
       /\ lex_calls[i].sessionId.v # ""

(***************************************************************************)
(* Further properties of the Suggestion Worker                             *)
(***************************************************************************)
\* C18: the worker issues the match query if and only if the term query
\* raised: an invocation makes at most two search calls, the match query
\* comes right after a term query that raised, and a term query that
\* returned, with hits or without, is followed by no match query.
C18_FallbackIffTermError ==
    \A w \in DOMAIN wk :
        /\ Cardinality(CallsOf(w, "search_term")) <= 1
        /\ Cardinality(CallsOf(w, "search_match")) <= 1
        /\ HasCall(w, <<"search_term", "error">>)
              <=> CallsOf(w, "search_match") # {}
        /\ \A i \in CallsOf(w, "search_match") :
              i > 1 /\ wk[w].calls[i - 1] = <<"search_term", "error">>
        /\ HasCall(w, <<"search_term", "ok">>)
              => CallsOf(w, "search_match") = {}

\* the term query raised, the match query found hits, the email went out
C18_Witness ==
    \E w \in DOMAIN wk :
        /\ Ended(w)
        /\ HasCall(w, <<"search_term", "error">>)
        /\ HasCall(w, <<"search_match", "ok">>)
        /\ wk[w].hits = 2
        /\ wk[w].result.status = "Email sent successfully"

(***************************************************************************)
(* Further properties of the Dialog Fulfillment Handler                    *)
(***************************************************************************)
\* the invocation validated nothing and wrote nothing to the queue
NoValidationNoQueue ==
    /\ ~ran
    /\ pushOutcome = "not_called"
    /\ sent = <<>>

\* C19: for the Greeting and Thank-you intents the handler returns Close
\* with state Fulfilled and the intent's fixed message, for every slot set
\* and invocation source, running no validator and writing nothing to the
\* queue; for an intent that is none of the three known ones it returns
\* Close with state Failed.
C19_FixedIntents ==
    phase = "done"
       => /\ event.intent = "GreetingIntent"
                => /\ response.type = "Close"
                   /\ response.state = "Fulfilled"
                   /\ response.intentName = "GreetingIntent"
                   /\ response.message =
                         "Hi there! How can I help you? "
                         \o "You can ask me for dining suggestions."
                   /\ NoValidationNoQueue
          /\ event.intent = "ThankYouIntent"
                => /\ response.type = "Close"
                   /\ response.state = "Fulfilled"
                   /\ response.intentName = "ThankYouIntent"
                   /\ response.message =
                         "You're welcome! Have a great day and enjoy your meal!"
                   /\ NoValidationNoQueue
          /\ event.intent \notin {"GreetingIntent", "ThankYouIntent",
                                  "DiningSuggestionsIntent"}
                => /\ response.type = "Close"
                   /\ response.state = "Failed"
                   /\ NoValidationNoQueue

\* a Thank-you under the fulfillment hook with a complete slot set
C19_Witness ==
    /\ phase = "done"
    /\ event.intent = "ThankYouIntent"
    /\ event.source = "FulfillmentCodeHook"
    /\ \A n \in SlotNames : ~IsNone(get_slot_value(event.slots, n))
    /\ event.slots["Location"] = StrSlot("Boston")
    /\ response.state = "Fulfilled"
    /\ sent = <<>>

\* the messages invocation w received
ReceivedBy(w) ==
    {wk[w].calls[i][2] : i \in CallsOf(w, "receive_message")} \ {0}

\* C20: an invocation receives at most one message and deletes at most that
\* one message, never a message it did not receive; when the queue yields
\* no message the invocation returns "No messages in queue" and has made no
\* search, document-store, email or delete call.
C20_OneMessagePerInvocation ==
    /\ \A w \in DOMAIN wk :
          /\ Cardinality(CallsOf(w, "receive_message")) <= 1
          /\ Cardinality(ReceivedBy(w)) <= 1
          /\ Cardinality(CallsOf(w, "delete_message")) <= 1
          /\ \A i \in CallsOf(w, "delete_message") :
                wk[w].calls[i][2] \in ReceivedBy(w)
          /\ HasCall(w, <<"receive_message", 0>>)
                => /\ Ended(w)
                   /\ wk[w].result = Return("No messages in queue", 0)
                   /\ wk[w].calls = << <<"receive_message", 0>> >>
    /\ \A m \in DOMAIN queue :
          queue[m].state = "deleted"
             => \E w \in DOMAIN wk :
                   m \in ReceivedBy(w) /\ HasCall(w, <<"delete_message", m>>)

\* of two queued messages the invocation deleted the one it received and
\* left the other in the queue
C20_Witness ==
    \E w \in DOMAIN wk :
        /\ Ended(w)
        /\ Len(queue) = 2
        /\ wk[w].msg # 0
        /\ queue[wk[w].msg].state = "deleted"
        /\ HasCall(w, <<"delete_message", wk[w].msg>>)
        /\ \E m \in DOMAIN queue : m # wk[w].msg /\ queue[m].state = "visible"

\* C21: in the fulfillment phase the handler returns Close with state
\* Fulfilled if and only if exactly one message was written to the queue in
\* that invocation; Failed is never reported after a message was written;
\* the Cuisine, DiningTime, NumberOfPeople and Email of the written body are
\* the slot values of the event.
C21_FulfilledIffEnqueued ==
    Dining("FulfillmentCodeHook")
       => /\ (response.type = "Close" /\ response.state = "Fulfilled")
                <=> Len(sent) = 1
          /\ Len(sent) <= 1
          /\ response.state = "Failed" => sent = <<>>
          /\ \A i \in DOMAIN sent :
                \A n \in {"Cuisine", "DiningTime", "NumberOfPeople", "Email"} :
                   sent[i][n] = get_slot_value(event.slots, n)

\* a request without a dining time is queued with DiningTime null and
\* reported Fulfilled
C21_Witness ==
    /\ Dining("FulfillmentCodeHook")
    /\ response.state = "Fulfilled"
    /\ Len(sent) = 1
    /\ event.slots["DiningTime"] = NoneSlot
    /\ sent[1].DiningTime = None
    /\ sent[1].NumberOfPeople = Some("21")
    /\ sent[1].Cuisine = Some("thai")

\* C22: only the fulfillment phase of the suggestion intent writes to the
\* queue: an invocation with the source DialogCodeHook, or any source other
\* than FulfillmentCodeHook, writes nothing whatever the slots; the
\* suggestion intent with an unrecognised source returns Delegate with the
\* slots unchanged.
C22_QueueWrittenByFulfillmentOnly ==
    phase = "done"
       => /\ event.source # "FulfillmentCodeHook"
                => sent = <<>> /\ pushOutcome = "not_called"
          /\ event.intent # "DiningSuggestionsIntent"
                => sent = <<>> /\ pushOutcome = "not_called"
          /\ (event.intent = "DiningSuggestionsIntent"
              /\ event.source \notin {"DialogCodeHook", "FulfillmentCodeHook"})
                => /\ response.type = "Delegate"
                   /\ response.slots = {event.slots}
                   /\ ~ran

\* a complete, valid request under a misspelt source is delegated, not queued
C22_Witness ==
    /\ phase = "done"
    /\ event.intent = "DiningSuggestionsIntent"
    /\ event.source = "fulfillmentcodehook"
    /\ validate_dining_suggestion(event.slots).isValid
    /\ \A n \in SlotNames : event.slots[n].kind = "Str"
    /\ response.type = "Delegate"
    /\ sent = <<>>

(***************************************************************************)
(* The dialog hook run to convergence: the suggestion intent is invoked    *)
(* with the source DialogCodeHook on any slot set, and every ElicitSlot    *)
(* directive is answered by invoking the hook again with the slot set the  *)
(* directive carried, the user adding nothing.  elicited records the slots *)
(* the directives asked for, in order.                                     *)
(***************************************************************************)
MaxElicits == 6

InitConverge ==
    /\ event \in [intent : {"DiningSuggestionsIntent"},
                  source : {"DialogCodeHook"}, slots : SlotSets]
    /\ phase = "pending"
    /\ response = NoResponse
    /\ pushOutcome = "not_called"
    /\ sent = <<>>
    /\ ran = FALSE
    /\ IdleWorker /\ IdleValidator /\ IdleRouter

\* the slot set of an ElicitSlot directive comes back as the next event
FeedBack ==
    /\ phase = "done"
    /\ response.type = "ElicitSlot"
    /\ Len(elicited) < MaxElicits
    /\ \E slots \in response.slots : event' = [event EXCEPT !.slots = slots]
    /\ elicited' = Append(elicited, response.slotToElicit)
    /\ phase' = "pending"
    /\ response' = NoResponse
    /\ pushOutcome' = "not_called"
    /\ sent' = <<>>
    /\ ran' = FALSE
    /\ UNCHANGED <<workerVars, validatorVars, routerVars>>

NextConverge == Invoke \/ FeedBack

\* the step of Invoke as seen in phase: an invocation waits for nothing, so
\* it is enabled exactly when an event is pending
Returns == phase = "pending" /\ phase' = "done"

\* the handler returns, and every directive it returns is fed back
ConvergeSpec ==
    InitConverge /\ [][NextConverge]_vars
                 /\ WF_phase(Returns) /\ WF_vars(FeedBack)

\* the number of slots of a slot set that fail their validator
InvalidCount(slots) == Cardinality({n \in SlotNames : SlotFails(slots, n)})

\* the slots elicited so far, the directive just returned included
Elicits ==
    elicited \o (IF phase = "done" /\ response.type = "ElicitSlot"
                 THEN <<response.slotToElicit>> ELSE <<>>)

Delegated == phase = "done" /\ response.type = "Delegate"

ElicitsBounded ==
    /\ Len(Elicits) <= 5
    /\ \A i, j \in DOMAIN Elicits : i # j => Elicits[i] # Elicits[j]

FewerInvalid ==
    elicited' # elicited => InvalidCount(event'.slots) < InvalidCount(event.slots)

\* C23: fed back with no new input, the dialog hook has strictly fewer
\* invalid slots after every ElicitSlot, never elicits the same slot twice,
\* returns at most 5 ElicitSlot directives, and reaches a Delegate directive.
C23_DialogConverges ==
    /\ []ElicitsBounded
    /\ [][FewerInvalid]_vars
    /\ <>Delegated

\* five invalid slots are elicited one after the other and then delegated
C23_Witness ==
    /\ Delegated
    /\ elicited = ValidationOrder
    /\ \A n \in SlotNames : event.slots[n] = NoneSlot

====
